---- MODULE Spec2Model ----
(***************************************************************************)
(* Model of the mm-cli update machinery (src/src/update.rs, src/src/main.rs) *)
(* together with the git repository it drives.                             *)
(*                                                                         *)
(* The program only launches external commands; what the commands do to    *)
(* the repository is modelled at file granularity: a tree maps each        *)
(* tracked file to an opaque content, a three-way merge of one file either *)
(* takes the one changed side or conflicts.                                *)
(***************************************************************************)
EXTENDS Integers, Sequences, FiniteSets, TLC

(* ------------------------------ bounds -------------------------------- *)

\* File contents are the opaque values 1..MaxContent.
MaxContent == 3

\* The largest number of upstream commits the local head may be missing.
MaxAhead == 1

\* The same number where only the scaffold check runs: large enough for
\* counts that print as more than one digit.
MaxCount == 12

\* How many times in a row the scaffold check is called on one project.
MaxCalls == 2

\* The backend numbers the versions of a bot 1..MaxVersion and lists at most
\* MaxList of them.
MaxVersion == 3
MaxList == 2

\* The backend answers "pending" to at most MaxPolls polls of a submission.
MaxPolls == 3

(* ------------------------- languages and paths ------------------------ *)

Langs == {"Rust", "Python", "Java"}

\* main.rs strategy_path: the protected subtree, as path components.
strategy_path(language) ==
    CASE language = "Rust"   -> <<"src", "strategy">>
      [] language = "Python" -> <<"strategy">>
      [] language = "Java"   -> <<"src", "com", "bot", "strategy">>

\* The tracked files of a project: "S" is the user's strategy file, "F" a
\* scaffold file of the template.
FileIds == {"S", "F"}

\* Where the two files live in each language's starterpack.
FilePath(language, f) ==
    CASE language = "Rust" ->
           IF f = "S" THEN <<"src", "strategy", "mod.rs">> ELSE <<"src", "main.rs">>
      [] language = "Python" ->
           IF f = "S" THEN <<"strategy", "bot.py">> ELSE <<"main.py">>
      [] language = "Java" ->
           IF f = "S" THEN <<"src", "com", "bot", "strategy", "Strategy.java">>
                      ELSE <<"src", "com", "bot", "Main.java">>

\* dir is path itself or one of its ancestors.
IsPrefix(dir, path) ==
    /\ Len(dir) <= Len(path)
    /\ \A i \in 1..Len(dir) : dir[i] = path[i]

RestoreSelects_everything(language, f) == TRUE

\* The pathspec of the restore: "." minus ":!<strategy>" minus ":!<strategy>/**".
\* ":!p" drops p and everything beneath it, ":!p/**" everything beneath it.
RestoreSelects(language, f) ==
    LET sp == strategy_path(language)
        p  == FilePath(language, f)
    IN  /\ ~ IsPrefix(sp, p)
        /\ ~ (IsPrefix(sp, p) /\ Len(p) > Len(sp))

(* ------------------------------ the repository ------------------------ *)

Contents == 1..MaxContent

\* What git leaves in a file it could not merge.
ConflictMarkers == 0

Trees == [FileIds -> Contents]

\* The tree of the merge base of the local head and upstream/main.
BaseTree == [f \in FileIds |-> 1]

Merge3(base, ours, theirs) ==
    IF theirs = base THEN ours
    ELSE IF ours = base THEN theirs
    ELSE IF ours = theirs THEN ours
    ELSE ConflictMarkers

MergeTrees(base, ours, theirs) ==
    [f \in FileIds |-> Merge3(base[f], ours[f], theirs[f])]

HasConflict(tree) == \E f \in FileIds : tree[f] = ConflictMarkers

\* The outcome of one external invocation: the exit, the error stream and
\* the repository it leaves.
Out(exit, stderr, r) == [exit |-> exit, stdout |-> <<>>, stderr |-> stderr, repo |-> r]

OutText(stdout, r) == [exit |-> "ok", stdout |-> stdout, stderr |-> "", repo |-> r]

\* git restore --source=upstream/main -- . :!<strategy> :!<strategy>/**
GitRestore(language, r) ==
    Out("ok", "",
        [r EXCEPT !.wt = [f \in FileIds |->
                            IF RestoreSelects(language, f) THEN r.up[f] ELSE r.wt[f]]])

\* git stash: nothing to save is a success that creates no entry.
GitStash(r) ==
    IF r.wt = r.head
    THEN Out("ok", "", r)
    ELSE Out("ok", "",
             [r EXCEPT !.stash = <<[base |-> r.head, wt |-> r.wt]>> \o r.stash,
                       !.wt = r.head])

\* git rebase upstream/main: the local commits replayed on the upstream tip.
GitRebase(r) ==
    IF r.ahead = 0
    THEN Out("ok", "", r)
    ELSE LET m == MergeTrees(BaseTree, r.up, r.head)
         IN  IF HasConflict(m)
             THEN Out("nonzero", "CONFLICT",
                      [r EXCEPT !.head = r.up, !.wt = m, !.midRebase = TRUE])
             ELSE Out("ok", "", [r EXCEPT !.head = m, !.wt = m, !.ahead = 0])

\* git stash pop: applies the newest entry and drops it, unless it conflicts.
GitStashPop_drops_on_conflict(r) ==
    IF r.stash = <<>>
    THEN Out("nonzero", "No stash entries found.", r)
    ELSE LET e == Head(r.stash)
             m == MergeTrees(e.base, r.wt, e.wt)
         IN  IF HasConflict(m)
             THEN Out("nonzero", "CONFLICT", [r EXCEPT !.wt = m, !.stash = Tail(r.stash)])
             ELSE Out("ok", "", [r EXCEPT !.wt = m, !.stash = Tail(r.stash)])

GitStashPop(r) ==
    IF r.stash = <<>>
    THEN Out("nonzero", "No stash entries found.", r)
    ELSE LET e == Head(r.stash)
             m == MergeTrees(e.base, r.wt, e.wt)
         IN  IF HasConflict(m)
             THEN Out("nonzero", "CONFLICT", [r EXCEPT !.wt = m])
             ELSE Out("ok", "", [r EXCEPT !.wt = m, !.stash = Tail(r.stash)])

(* ------------------------------ tool output --------------------------- *)

\* Output is a sequence of characters; a word that is never taken apart (a
\* commit identifier, a ref name) is one element.
Whitespace == {" ", "\t", "\n"}

DigitChars == <<"0", "1", "2", "3", "4", "5", "6", "7", "8", "9">>

RECURSIVE ToDecimal(_)
ToDecimal(n) ==
    IF n < 10 THEN <<DigitChars[n + 1]>>
    ELSE ToDecimal(n \div 10) \o <<DigitChars[(n % 10) + 1]>>

\* str::trim
RECURSIVE TrimStart(_)
TrimStart(s) ==
    IF s # <<>> /\ Head(s) \in Whitespace THEN TrimStart(Tail(s)) ELSE s

RECURSIVE TrimEnd(_)
TrimEnd(s) ==
    IF s # <<>> /\ s[Len(s)] \in Whitespace THEN TrimEnd(SubSeq(s, 1, Len(s) - 1)) ELSE s

Trim(s) == TrimEnd(TrimStart(s))

DigitValue(c) == CHOOSE d \in 0..9 : DigitChars[d + 1] = c

IsDigit(c) == \E d \in 0..9 : DigitChars[d + 1] = c

\* str::parse::<u32>: the number, or -1 for an error. Counts of up to nine
\* digits are read exactly; the model prints none longer.
RECURSIVE ParseDigits(_, _)
ParseDigits(s, acc) ==
    IF s = <<>> THEN acc
    ELSE IF ~ IsDigit(Head(s)) THEN -1
    ELSE ParseDigits(Tail(s), acc * 10 + DigitValue(Head(s)))

ParseU32(s) ==
    LET t == IF s # <<>> /\ Head(s) = "+" THEN Tail(s) ELSE s
    IN  IF t = <<>> \/ Len(t) > 9 THEN -1 ELSE ParseDigits(t, 0)

\* split_whitespace().next(): the first word as a one-element sequence, or
\* the empty sequence for None.
FirstWord(s) ==
    LET t == TrimStart(s) IN IF t = <<>> THEN <<>> ELSE <<Head(t)>>

(* ----------------------- git commands of the checks ------------------- *)

\* git remote add upstream <url>
GitRemoteAdd(r) ==
    IF r.remote
    THEN Out("nonzero", "error: remote upstream already exists.", r)
    ELSE Out("ok", "", [r EXCEPT !.remote = TRUE])

\* git fetch upstream main: upstream/main becomes the template's main.
GitFetch(r, tpl) ==
    IF ~ r.remote
    THEN Out("nonzero", "fatal: 'upstream' does not appear to be a git repository", r)
    ELSE Out("ok", "", [r EXCEPT !.hasRef = TRUE, !.up = tpl.tree, !.ahead = tpl.ahead])

\* git rev-list --count HEAD..upstream/main
GitRevList(r) ==
    IF ~ r.hasRef
    THEN Out("nonzero", "fatal: ambiguous argument 'HEAD..upstream/main'", r)
    ELSE OutText(ToDecimal(r.ahead) \o <<"\n">>, r)

\* The commit identifiers the tool's repository may be at.
Hashes == {"h1", "h2"}

\* env!("GIT_HASH")
get_current_cli_hash == "h1"

\* git ls-remote <CLI_REPO_URL> HEAD: one line per matching ref, none when
\* the remote has no HEAD.
GitLsRemote_of_upstream(r) ==
    IF r.remote
    THEN { OutText(<<h, "\t", "HEAD", "\n">>, r) : h \in Hashes } \cup { OutText(<<>>, r) }
    ELSE { Out("nonzero", "fatal: 'upstream' does not appear to be a git repository", r) }

GitLsRemote(r) ==
    { OutText(<<h, "\t", "HEAD", "\n">>, r) : h \in Hashes } \cup { OutText(<<>>, r) }

(* ------------------------------ state --------------------------------- *)

VARIABLES
    lang,     \* config.language
    cmd,      \* the command line: the subcommand and --ignore-updates
    template, \* main of the template repository: its tree, its commits ahead
    repo,     \* the git repository at root
    cli,      \* the has_cli_updates future: position, result, invocations
    up,       \* the has_upstream_changes future: position, result, invocations
    needs,    \* what the join of the two checks returned
    pc,       \* the position of the command after the dispatch
    result,   \* what the command returned
    calls,    \* the invocations of the command itself, with exit and output
    pre,      \* the working tree and stash when update_starterpack began
    shelved,  \* the stash entries this run's shelve step created
    prior,    \* the has_upstream_changes calls made on the project before
    sw,       \* the version switch command: its position, inputs and requests
    sub       \* the submit command: its position and the poll responses

vars == <<lang, cmd, template, repo, cli, up, needs, pc, result, calls, pre, shelved,
          prior, sw, sub>>

\* What the update machinery works on; the backend commands leave it alone.
updateVars == <<lang, cmd, template, repo, cli, up, needs, pc, result, calls, pre,
                shelved, prior>>

\* The backend commands when another command runs.
NoSwitch == [pc |-> "none"]
NoSubmit == [pc |-> "none"]

(* ------------------------- the external tool -------------------------- *)

\* Every way one launch can end: the tool cannot be started, it exits
\* non-zero for a reason of its own (a lock file, no network), or it runs
\* and does what `ran` says.
Launch(r, ran) ==
    { Out("spawn", "", r), Out("nonzero", "fatal", r), ran }

Call(name, out) ==
    [cmd |-> name, exit |-> out.exit, stdout |-> out.stdout, stderr |-> out.stderr]

(* ------------------------------ results -------------------------------- *)

Running == [state |-> "running", msg |-> "", stderr |-> ""]
Ok      == [state |-> "ok", msg |-> "", stderr |-> ""]
Err(msg, stderr) == [state |-> "err", msg |-> msg, stderr |-> stderr]

\* Result<bool> of one check.
Pending    == [state |-> "pending", val |-> FALSE, msg |-> "", stderr |-> ""]
Value(b)   == [state |-> "ok", val |-> b, msg |-> "", stderr |-> ""]
Failed(msg, stderr) == [state |-> "err", val |-> FALSE, msg |-> msg, stderr |-> stderr]

(* ---------------------------- has_cli_updates ------------------------- *)

\* get_remote_cli_hash, then the comparison of has_cli_updates.
has_cli_updates_when_equal(out) ==
    IF out.exit = "spawn" THEN Failed("Failed to check remote CLI version", "")
    ELSE IF out.exit # "ok" THEN Failed("Failed to fetch remote hash: ", out.stderr)
    ELSE IF FirstWord(out.stdout) = <<>> THEN Failed("Invalid remote response", "")
    ELSE Value(get_current_cli_hash = FirstWord(out.stdout)[1])

has_cli_updates(out) ==
    IF out.exit = "spawn" THEN Failed("Failed to check remote CLI version", "")
    ELSE IF out.exit # "ok" THEN Failed("Failed to fetch remote hash: ", out.stderr)
    ELSE IF FirstWord(out.stdout) = <<>> THEN Failed("Invalid remote response", "")
    ELSE Value(get_current_cli_hash # FirstWord(out.stdout)[1])

\* What launching ls-remote in repository r may give.
LsRemoteOutcomes(r) == Launch(r, OutText(<<>>, r)) \cup GitLsRemote(r)

CliLsRemote ==
    /\ pc = "check"
    /\ cli.pc = "ls-remote"
    /\ \E out \in LsRemoteOutcomes(repo) :
          cli' = [pc |-> "done", res |-> has_cli_updates(out),
                  calls |-> Append(cli.calls, Call("ls-remote", out))]
    /\ UNCHANGED <<lang, cmd, template, repo, up, needs, pc, result, calls, pre, shelved, prior, sw, sub>>

(* -------------------------- has_upstream_changes ---------------------- *)

\* add_upstream_remote: `.output().await?` returns a launch error; the exit
\* status is never read.
AfterRemoteAdd_checks_exit(out) ==
    IF out.exit = "spawn" THEN [pc |-> "done", res |-> Failed("io", "")]
    ELSE IF out.exit # "ok" THEN [pc |-> "done", res |-> Failed("io", out.stderr)]
    ELSE [pc |-> "fetch", res |-> Pending]

AfterRemoteAdd_fails_if_exists(out) ==
    IF out.exit = "spawn" THEN [pc |-> "done", res |-> Failed("io", "")]
    ELSE IF out.stderr = "error: remote upstream already exists."
    THEN [pc |-> "done", res |-> Failed("remote exists", out.stderr)]
    ELSE [pc |-> "fetch", res |-> Pending]

AfterRemoteAdd(out) ==
    IF out.exit = "spawn"
    THEN [pc |-> "done", res |-> Failed("io", "")]
    ELSE [pc |-> "fetch", res |-> Pending]

UpRemoteAdd ==
    /\ pc = "check"
    /\ up.pc = "remote add"
    /\ \E out \in Launch(repo, GitRemoteAdd(repo)) :
          /\ repo' = out.repo
          /\ up' = [pc |-> AfterRemoteAdd(out).pc, res |-> AfterRemoteAdd(out).res,
                    calls |-> Append(up.calls, Call("remote add", out))]
    /\ UNCHANGED <<lang, cmd, template, cli, needs, pc, result, calls, pre, shelved, prior, sw, sub>>

\* The fetch of has_upstream_changes: .context()? and bail! on a non-zero exit.
AfterFetch_ignores_exit(out) ==
    IF out.exit = "spawn"
    THEN [pc |-> "done", res |-> Failed("Failed to fetch upstream", "")]
    ELSE [pc |-> "rev-list", res |-> Pending]

AfterFetch(out) ==
    IF out.exit = "spawn"
    THEN [pc |-> "done", res |-> Failed("Failed to fetch upstream", "")]
    ELSE IF out.exit # "ok"
    THEN [pc |-> "done", res |-> Failed("Git fetch failed: ", out.stderr)]
    ELSE [pc |-> "rev-list", res |-> Pending]

UpFetch ==
    /\ pc = "check"
    /\ up.pc = "fetch"
    /\ \E out \in Launch(repo, GitFetch(repo, template)) :
          /\ repo' = out.repo
          /\ up' = [pc |-> AfterFetch(out).pc, res |-> AfterFetch(out).res,
                    calls |-> Append(up.calls, Call("fetch", out))]
    /\ UNCHANGED <<lang, cmd, template, cli, needs, pc, result, calls, pre, shelved, prior, sw, sub>>

\* The count read from the output of rev-list, and count > 0.
CountResult_any_count(out) ==
    IF out.exit = "spawn" THEN Failed("Failed to check for updates", "")
    ELSE IF out.exit # "ok" THEN Failed("Git rev-list failed: ", out.stderr)
    ELSE IF ParseU32(Trim(out.stdout)) < 0 THEN Failed("ParseIntError", "")
    ELSE Value(ParseU32(Trim(out.stdout)) >= 0)

CountResult(out) ==
    IF out.exit = "spawn" THEN Failed("Failed to check for updates", "")
    ELSE IF out.exit # "ok" THEN Failed("Git rev-list failed: ", out.stderr)
    ELSE IF ParseU32(Trim(out.stdout)) < 0 THEN Failed("ParseIntError", "")
    ELSE Value(ParseU32(Trim(out.stdout)) > 0)

UpRevList ==
    /\ pc = "check"
    /\ up.pc = "rev-list"
    /\ \E out \in Launch(repo, GitRevList(repo)) \cup {OutText(<<"?", "\n">>, repo)} :
          up' = [pc |-> "done", res |-> CountResult(out),
                 calls |-> Append(up.calls, Call("rev-list", out))]
    /\ UNCHANGED <<lang, cmd, template, repo, cli, needs, pc, result, calls, pre, shelved, prior, sw, sub>>

(* ------------------------------ the joins ------------------------------ *)

NoNeeds == [state |-> "pending", cli |-> FALSE, sp |-> FALSE, msg |-> "", stderr |-> ""]

\* check_all_updates: Ok(cli_updates? || starterpack_updates?). The right
\* operand of || is evaluated only when the left one is false.
check_all_updates(c, u) ==
    IF c.state = "err"
    THEN [state |-> "err", cli |-> FALSE, sp |-> FALSE, msg |-> c.msg, stderr |-> c.stderr]
    ELSE IF c.val
    THEN [state |-> "ok", cli |-> TRUE, sp |-> FALSE, msg |-> "", stderr |-> ""]
    ELSE IF u.state = "err"
    THEN [state |-> "err", cli |-> FALSE, sp |-> FALSE, msg |-> u.msg, stderr |-> u.stderr]
    ELSE [state |-> "ok", cli |-> FALSE, sp |-> u.val, msg |-> "", stderr |-> ""]

\* update_all: (cli_needs_update?, starterpack_needs_update?)
update_all_check(c, u) ==
    IF c.state = "err"
    THEN [state |-> "err", cli |-> FALSE, sp |-> FALSE, msg |-> c.msg, stderr |-> c.stderr]
    ELSE IF u.state = "err"
    THEN [state |-> "err", cli |-> FALSE, sp |-> FALSE, msg |-> u.msg, stderr |-> u.stderr]
    ELSE [state |-> "ok", cli |-> c.val, sp |-> u.val, msg |-> "", stderr |-> ""]

\* Where update_all goes after the reinstall, or without one.
AfterCli(n) == IF n.sp THEN "restore" ELSE "done"

\* main.rs run(): the match on the subcommand.
Dispatch ==
    /\ pc = "start"
    /\ pc' = IF cmd.name = "run" /\ cmd.no_updates THEN "build" ELSE "check"
    /\ UNCHANGED <<lang, cmd, template, repo, cli, up, needs, result, calls, pre, shelved, prior, sw, sub>>

\* tokio::join! returns when both futures have completed.
Joined_first_done(c, u) == c.pc = "done" \/ u.pc = "done"

Joined(c, u) == c.pc = "done" /\ u.pc = "done"

\* What run() does with the answer of check_all_updates: `?` with the context
\* "update check failed", an early return when updates are needed, the build
\* otherwise.
AfterRunCheck_warns_only(n) ==
    IF n.state = "err"
    THEN [pc |-> "done", result |-> Err("update check failed", n.msg)]
    ELSE [pc |-> "build", result |-> Running]

AfterRunCheck(n) ==
    IF n.state = "err"
    THEN [pc |-> "done", result |-> Err("update check failed", n.msg)]
    ELSE IF n.cli \/ n.sp
    THEN [pc |-> "done", result |-> Ok]
    ELSE [pc |-> "build", result |-> Running]

\* tokio::join! has returned in check_all_updates; run() reads the answer.
JoinRun ==
    /\ pc = "check"
    /\ cmd.name = "run"
    /\ Joined(cli, up)
    /\ needs' = check_all_updates(cli.res, up.res)
    /\ pc' = AfterRunCheck(needs').pc
    /\ result' = AfterRunCheck(needs').result
    /\ UNCHANGED <<lang, cmd, template, repo, cli, up, calls, pre, shelved, prior, sw, sub>>

\* What update_all does with the pair of answers: `?` on either error, the
\* reinstall when the CLI is stale, the synchronisation or the end otherwise.
AfterUpdateCheck_sync_first(n) ==
    IF n.state = "err"
    THEN [pc |-> "done", result |-> Err(n.msg, n.stderr)]
    ELSE IF n.sp
    THEN [pc |-> "restore", result |-> Running]
    ELSE IF n.cli
    THEN [pc |-> "cargo install", result |-> Running]
    ELSE [pc |-> "done", result |-> Ok]

AfterUpdateCheck(n) ==
    IF n.state = "err"
    THEN [pc |-> "done", result |-> Err(n.msg, n.stderr)]
    ELSE IF n.cli
    THEN [pc |-> "cargo install", result |-> Running]
    ELSE [pc |-> AfterCli(n), result |-> IF AfterCli(n) = "done" THEN Ok ELSE Running]

\* tokio::join! has returned in update_all.
JoinUpdate ==
    /\ pc = "check"
    /\ cmd.name = "update"
    /\ Joined(cli, up)
    /\ needs' = update_all_check(cli.res, up.res)
    /\ pc' = AfterUpdateCheck(needs').pc
    /\ result' = AfterUpdateCheck(needs').result
    /\ UNCHANGED <<lang, cmd, template, repo, cli, up, calls, pre, shelved, prior, sw, sub>>

(* -------------------------------- update_cli --------------------------- *)

\* What update_all does with the output of cargo install: `?` on the launch
\* error and on the bail! of a non-zero exit, the synchronisation otherwise.
AfterUpdateCli_ignores_exit(out, n) ==
    IF out.exit = "spawn"
    THEN [pc |-> "done", result |-> Err("Failed to update CLI", "")]
    ELSE [pc |-> AfterCli(n), result |-> IF AfterCli(n) = "done" THEN Ok ELSE Running]

AfterUpdateCli(out, n) ==
    IF out.exit = "spawn"
    THEN [pc |-> "done", result |-> Err("Failed to update CLI", "")]
    ELSE IF out.exit # "ok"
    THEN [pc |-> "done", result |-> Err("CLI update failed", "")]
    ELSE [pc |-> AfterCli(n), result |-> IF AfterCli(n) = "done" THEN Ok ELSE Running]

UpdateCli ==
    /\ pc = "cargo install"
    /\ \E out \in Launch(repo, Out("ok", "", repo)) :
          /\ calls' = Append(calls, Call("cargo install", out))
          /\ pc' = AfterUpdateCli(out, needs).pc
          /\ result' = AfterUpdateCli(out, needs).result
    /\ UNCHANGED <<lang, cmd, template, repo, cli, up, needs, pre, shelved, prior, sw, sub>>

(* ------------------------- run: build and match ------------------------ *)

\* The scripts directory is looked up, then the build script is launched
\* (its exit is not read) and the engine plays the match.
Build ==
    /\ pc = "build"
    /\ \E scripts \in {"none", "no build", "no run", "all"} :
          IF scripts = "none"
          THEN pc' = "done" /\ result' = Err("unable to find build scripts", "") /\ calls' = calls
          ELSE IF scripts = "no build"
          THEN pc' = "done" /\ result' = Err("unable to find build file", "") /\ calls' = calls
          ELSE IF scripts = "no run"
          THEN pc' = "done" /\ result' = Err("unable to find run file", "") /\ calls' = calls
          ELSE \E out \in Launch(repo, Out("ok", "", repo)) :
                  /\ calls' = Append(calls, Call("build", out))
                  /\ IF out.exit = "spawn"
                     THEN pc' = "done" /\ result' = Err("failed to build bot", "")
                     ELSE pc' = "engine" /\ result' = result
    /\ UNCHANGED <<lang, cmd, template, repo, cli, up, needs, pre, shelved, prior, sw, sub>>

Engine ==
    /\ pc = "engine"
    /\ \E ok \in BOOLEAN :
          /\ calls' = Append(calls, [cmd |-> "engine", exit |-> IF ok THEN "ok" ELSE "nonzero",
                                     stdout |-> <<>>, stderr |-> ""])
          /\ result' = IF ok THEN Ok ELSE Err("fatal engine error", "")
    /\ pc' = "done"
    /\ UNCHANGED <<lang, cmd, template, repo, cli, up, needs, pre, shelved, prior, sw, sub>>

(* ---------------------------- update_starterpack ---------------------- *)

SyncOrder == <<"restore", "stash", "rebase", "stash pop">>

NextPc_rebase_first(step) ==
    CASE step = "restore"   -> "rebase"
      [] step = "rebase"    -> "stash"
      [] step = "stash"     -> "stash pop"
      [] step = "stash pop" -> "done"

NextPc(step) ==
    CASE step = "restore"   -> "stash"
      [] step = "stash"     -> "rebase"
      [] step = "rebase"    -> "stash pop"
      [] step = "stash pop" -> "done"

\* .context("Failed to run git <step>")?
ContextMsg(step) ==
    CASE step = "restore"   -> "Failed to run git restore"
      [] step = "stash"     -> "Failed to run git stash"
      [] step = "rebase"    -> "Failed to run git rebase"
      [] step = "stash pop" -> "Failed to run git stash pop"

\* bail!("Git <step> failed: {}", stderr)
BailMsg_all_rebase(step) == "Git rebase failed: "

BailMsg(step) ==
    CASE step = "restore"   -> "Git restore failed: "
      [] step = "stash"     -> "Git stash failed: "
      [] step = "rebase"    -> "Git rebase failed: "
      [] step = "stash pop" -> "Git stash pop failed: "

\* What the code does with the output of one step: `?` on a launch error,
\* bail! on a non-zero exit, the next step otherwise.
AfterStep_ignores_exit(step, out) ==
    IF out.exit = "spawn"
    THEN [pc |-> "done", result |-> Err(ContextMsg(step), "")]
    ELSE [pc |-> NextPc(step),
          result |-> IF NextPc(step) = "done" THEN Ok ELSE Running]

AfterStep_retries(step, out) ==
    IF out.exit = "spawn"
    THEN [pc |-> "done", result |-> Err(ContextMsg(step), "")]
    ELSE IF out.exit # "ok"
    THEN [pc |-> step, result |-> Running]
    ELSE [pc |-> NextPc(step),
          result |-> IF NextPc(step) = "done" THEN Ok ELSE Running]

AfterStep(step, out) ==
    IF out.exit = "spawn"
    THEN [pc |-> "done", result |-> Err(ContextMsg(step), "")]
    ELSE IF out.exit # "ok"
    THEN [pc |-> "done", result |-> Err(BailMsg(step), out.stderr)]
    ELSE [pc |-> NextPc(step),
          result |-> IF NextPc(step) = "done" THEN Ok ELSE Running]

Step(step, out) ==
    /\ repo' = out.repo
    /\ calls' = Append(calls, Call(step, out))
    /\ pc' = AfterStep(step, out).pc
    /\ result' = AfterStep(step, out).result

Restore ==
    /\ pc = "restore"
    /\ \E out \in Launch(repo, GitRestore(lang, repo)) : Step("restore", out)
    /\ pre' = [wt |-> repo.wt, stash |-> repo.stash]
    /\ UNCHANGED <<lang, cmd, template, cli, up, needs, shelved, prior, sw, sub>>

Shelve ==
    /\ pc = "stash"
    /\ \E out \in Launch(repo, GitStash(repo)) :
          /\ Step("stash", out)
          /\ shelved' = SubSeq(out.repo.stash, 1, Len(out.repo.stash) - Len(repo.stash))
    /\ UNCHANGED <<lang, cmd, template, cli, up, needs, pre, prior, sw, sub>>

Rebase ==
    /\ pc = "rebase"
    /\ \E out \in Launch(repo, GitRebase(repo)) : Step("rebase", out)
    /\ UNCHANGED <<lang, cmd, template, cli, up, needs, pre, shelved, prior, sw, sub>>

Unshelve ==
    /\ pc = "stash pop"
    /\ \E out \in Launch(repo, GitStashPop(repo)) : Step("stash pop", out)
    /\ UNCHANGED <<lang, cmd, template, cli, up, needs, pre, shelved, prior, sw, sub>>

(* ------------------------------ behaviours ---------------------------- *)

\* The stash a project may hold before the update: nothing, or one earlier
\* edit of one file shelved on the current head.
PreStashes(h) ==
    {<<>>} \cup
    UNION { { <<[base |-> h, wt |-> [h EXCEPT ![f] = c]]>> :
                c \in Contents \ {h[f]} } : f \in FileIds }

Repo(h, u, a, w, s, registered, fetched) ==
    [head |-> h, up |-> u, ahead |-> a, wt |-> w, stash |-> s,
     remote |-> registered, hasRef |-> fetched, midRebase |-> FALSE]

\* The template's main: its tree and the number of its commits that the
\* local head lacks. With none lacking, its tip is the merge base.
Templates ==
    { [tree |-> u, ahead |-> a] : u \in Trees, a \in 1..MaxAhead }
        \cup { [tree |-> BaseTree, ahead |-> 0] }

\* A command on a project: any language, any local commits, the strategy
\* file edited or not, nothing shelved; "upstream" not yet registered, or
\* registered and fetched when the template was at the merge base, or
\* registered and fetched at the template's present main.
Init ==
    /\ lang \in Langs
    /\ cmd \in { [name |-> "run", no_updates |-> FALSE],
                 [name |-> "run", no_updates |-> TRUE],
                 [name |-> "update", no_updates |-> FALSE] }
    /\ template \in Templates
    /\ \E h \in Trees, edited \in BOOLEAN, tracking \in {"none", "old", "tip"} :
          LET w == IF edited THEN [h EXCEPT !["S"] = (h["S"] % MaxContent) + 1] ELSE h
          IN  repo = CASE tracking = "none" -> Repo(h, BaseTree, 0, w, <<>>, FALSE, FALSE)
                       [] tracking = "old"  -> Repo(h, BaseTree, 0, w, <<>>, TRUE, TRUE)
                       [] tracking = "tip"  ->
                            Repo(h, template.tree, template.ahead, w, <<>>, TRUE, TRUE)
    /\ cli = [pc |-> "ls-remote", res |-> Pending, calls |-> <<>>]
    /\ up = [pc |-> "remote add", res |-> Pending, calls |-> <<>>]
    /\ needs = NoNeeds
    /\ pc = "start"
    /\ result = Running
    /\ calls = <<>>
    /\ pre = [wt |-> repo.wt, stash |-> repo.stash]
    /\ shelved = <<>>
    /\ prior = <<>>
    /\ sw = NoSwitch
    /\ sub = NoSubmit

Next ==
    \/ Dispatch
    \/ CliLsRemote
    \/ UpRemoteAdd
    \/ UpFetch
    \/ UpRevList
    \/ JoinRun
    \/ JoinUpdate
    \/ UpdateCli
    \/ Build
    \/ Engine
    \/ Restore
    \/ Shelve
    \/ Rebase
    \/ Unshelve

Spec == Init /\ [][Next]_vars

\* update_starterpack is entered by update_all once the scaffold check has
\* fetched upstream/main and counted at least one missing commit: any local
\* commits, any uncommitted edits, any earlier stash entry.
InitSync ==
    /\ lang \in Langs
    /\ cmd = [name |-> "update", no_updates |-> FALSE]
    /\ template \in { t \in Templates : t.ahead > 0 }
    /\ \E h \in Trees, w \in Trees :
          \E s \in PreStashes(h) :
             repo = Repo(h, template.tree, template.ahead, w, s, TRUE, TRUE)
    /\ cli = [pc |-> "done", res |-> Value(FALSE),
              calls |-> <<Call("ls-remote",
                               OutText(<<get_current_cli_hash, "\t", "HEAD", "\n">>, repo))>>]
    /\ up = [pc |-> "done", res |-> Value(TRUE),
             calls |-> << Call("remote add", GitRemoteAdd(repo)),
                          Call("fetch", GitFetch(repo, template)),
                          Call("rev-list", GitRevList(repo)) >>]
    /\ needs = update_all_check(cli.res, up.res)
    /\ pc = "restore"
    /\ result = Running
    /\ calls = <<>>
    /\ pre = [wt |-> repo.wt, stash |-> repo.stash]
    /\ shelved = <<>>
    /\ prior = <<>>
    /\ sw = NoSwitch
    /\ sub = NoSubmit

NextSync == Restore \/ Shelve \/ Rebase \/ Unshelve

SpecSync == InitSync /\ [][NextSync]_vars

\* The same entry on a project whose stash is empty.
InitSyncEmptyStash == InitSync /\ repo.stash = <<>>

SpecSyncEmptyStash == InitSyncEmptyStash /\ [][NextSync]_vars

\* Every invocation is awaited with `.output().await` and every git command
\* returns: a step of update_starterpack that can be taken is taken. The
\* steps taken do not depend on the language; one language is followed.
InitSyncFair == InitSync /\ lang = "Rust"

SpecSyncFair == InitSyncFair /\ [][NextSync]_vars /\ WF_vars(NextSync)

\* The next command on the project calls has_upstream_changes again (run
\* reports that updates are needed, update then checks anew): the finished
\* call is kept and a new one starts at add_upstream_remote.
CheckAgain ==
    /\ pc = "check"
    /\ up.pc = "done"
    /\ Len(prior) + 1 < MaxCalls
    /\ prior' = Append(prior, up)
    /\ up' = [pc |-> "remote add", res |-> Pending, calls |-> <<>>]
    /\ UNCHANGED <<lang, cmd, template, repo, cli, needs, pc, result, calls, pre, shelved, sw, sub>>

\* The templates of the scaffold check alone: up to MaxCount commits ahead.
ScaffoldTemplates ==
    { [tree |-> u, ahead |-> a] : u \in Trees \ {BaseTree}, a \in 1..MaxCount }
        \cup { [tree |-> BaseTree, ahead |-> 0] }

\* has_upstream_changes alone, called up to MaxCalls times on a project
\* whose local head and template stay as they are: a clean project at the
\* merge base, "upstream" unregistered, fetched long ago or fetched at the tip.
InitScaffold ==
    /\ lang \in Langs
    /\ cmd = [name |-> "run", no_updates |-> FALSE]
    /\ template \in ScaffoldTemplates
    /\ \E tracking \in {"none", "old", "tip"} :
          repo = CASE tracking = "none" ->
                        Repo(BaseTree, BaseTree, 0, BaseTree, <<>>, FALSE, FALSE)
                   [] tracking = "old"  ->
                        Repo(BaseTree, BaseTree, 0, BaseTree, <<>>, TRUE, TRUE)
                   [] tracking = "tip"  ->
                        Repo(BaseTree, template.tree, template.ahead, BaseTree, <<>>,
                             TRUE, TRUE)
    /\ cli = [pc |-> "ls-remote", res |-> Pending, calls |-> <<>>]
    /\ up = [pc |-> "remote add", res |-> Pending, calls |-> <<>>]
    /\ needs = NoNeeds
    /\ pc = "check"
    /\ result = Running
    /\ calls = <<>>
    /\ pre = [wt |-> repo.wt, stash |-> repo.stash]
    /\ shelved = <<>>
    /\ prior = <<>>
    /\ sw = NoSwitch
    /\ sub = NoSubmit

NextScaffold == UpRemoteAdd \/ UpFetch \/ UpRevList \/ CheckAgain

SpecScaffold == InitScaffold /\ [][NextScaffold]_vars

(* ---------------------------- version switch --------------------------- *)

Latest == <<"l", "a", "t", "e", "s", "t">>

\* version.rs parse_version: "latest", a u32, or an error.
parse_version(s) ==
    IF s = Latest THEN [kind |-> "latest", n |-> 0]
    ELSE IF ParseU32(s) < 0 THEN [kind |-> "invalid", n |-> 0]
    ELSE [kind |-> "number", n |-> ParseU32(s)]

\* VersionResponse, as far as switch reads it, and VersionsResponse.versions.
VersionEntries == [version_number : 1..MaxVersion, compile_status : {"success", "failure"}]

VersionLists == UNION { [1..n -> VersionEntries] : n \in 0..MaxList }

\* versions.iter().map(|vr| vr.version_number).max(): the number, or 0 for None.
MaxVersionNumber(list) ==
    IF list = <<>> THEN 0
    ELSE CHOOSE m \in { list[i].version_number : i \in 1..Len(list) } :
            \A i \in 1..Len(list) : list[i].version_number <= m

\* versions.iter().find(|vr| vr.version_number == version): the index of the
\* first such entry, or 0 for None.
FindVersion(list, v) ==
    IF \E i \in 1..Len(list) : list[i].version_number = v
    THEN CHOOSE i \in 1..Len(list) :
            /\ list[i].version_number = v
            /\ \A k \in 1..(i - 1) : list[k].version_number # v
    ELSE 0

\* The two validations of switch: Running when the request may be sent.
ValidateVersion_skips_status(list, v) ==
    IF FindVersion(list, v) = 0 THEN Err("Version not found", "")
    ELSE Running

ValidateVersion(list, v) ==
    IF FindVersion(list, v) = 0 THEN Err("Version not found", "")
    ELSE IF list[FindVersion(list, v)].compile_status # "success"
    THEN Err("Version has status, cannot switch", "")
    ELSE Running

\* Version::Latest resolved on the fetched list.
ResolveLatest(list) ==
    IF MaxVersionNumber(list) = 0
    THEN [res |-> Err("No versions available to switch to", ""), n |-> 0]
    ELSE [res |-> Running, n |-> MaxVersionNumber(list)]

\* What a user may type for a version: "latest", the numbers from 0 to one
\* past MaxVersion, a signed number, a padded number, a word, nothing.
VersionTexts ==
    { Latest, <<"+", "2">>, <<"-", "1">>, <<" ", "2">>, <<"x">>, <<>> }
        \cup { ToDecimal(n) : n \in 0..(MaxVersion + 1) }

\* What read_line may give at the prompt: a typed line, or nothing at end
\* of input.
PromptLines == { t \o <<"\n">> : t \in VersionTexts } \cup { <<>> }

\* clap has parsed --version with parse_version (main.rs Switch); an invalid
\* value ends the command before switch is called.
SwitchParseArgs ==
    /\ sw.pc = "parse args"
    /\ IF sw.arg.given /\ parse_version(sw.arg.text).kind = "invalid"
       THEN sw' = [sw EXCEPT !.pc = "done", !.res = Err("Invalid version", "")]
       ELSE sw' = [sw EXCEPT !.pc = "get versions"]
    /\ UNCHANGED <<updateVars, sub>>

\* get_versions: the token is read, the request sent, the response parsed.
SwitchGetVersions ==
    /\ sw.pc = "get versions"
    /\ \E outcome \in {"no token", "send failed", "bad response", "ok"} :
          sw' = CASE outcome = "no token" ->
                       [sw EXCEPT !.pc = "done", !.res = Err("failed to read certificate", "")]
                  [] outcome = "send failed" ->
                       [sw EXCEPT !.pc = "done", !.res = Err("failed to fetch bot versions", "")]
                  [] outcome = "bad response" ->
                       [sw EXCEPT !.pc = "done", !.res = Err("Failed to parse response", "")]
                  [] outcome = "ok" ->
                       [sw EXCEPT !.pc = "resolve", !.fetched = TRUE, !.list = sw.versions]
    /\ UNCHANGED <<updateVars, sub>>

\* The match on args.version: a number, latest, or the prompt.
SwitchResolve ==
    /\ sw.pc = "resolve"
    /\ IF sw.arg.given
       THEN LET v == parse_version(sw.arg.text)
                r == IF v.kind = "number" THEN [res |-> Running, n |-> v.n]
                     ELSE ResolveLatest(sw.list)
            IN  sw' = [sw EXCEPT !.pc = IF r.res = Running THEN "validate" ELSE "done",
                                 !.res = r.res, !.version = r.n]
       ELSE \E line \in PromptLines \cup {<<"read error">>} :
               LET v == parse_version(Trim(line))
                   r == IF line = <<"read error">>
                        THEN [res |-> Err("Failed to read input", ""), n |-> 0]
                        ELSE IF v.kind = "invalid"
                        THEN [res |-> Err("Invalid version", ""), n |-> 0]
                        ELSE IF v.kind = "number" THEN [res |-> Running, n |-> v.n]
                        ELSE ResolveLatest(sw.list)
               IN  sw' = [sw EXCEPT !.pc = IF r.res = Running THEN "validate" ELSE "done",
                                    !.res = r.res, !.version = r.n, !.input = line]
    /\ UNCHANGED <<updateVars, sub>>

\* The version is looked up in the list and its compile status is tested.
SwitchValidate ==
    /\ sw.pc = "validate"
    /\ sw' = [sw EXCEPT !.pc = IF ValidateVersion(sw.list, sw.version) = Running
                                THEN "send" ELSE "done",
                        !.res = ValidateVersion(sw.list, sw.version)]
    /\ UNCHANGED <<updateVars, sub>>

\* The change-version request: the token is read, the request sent and the
\* body of the response read.
SwitchSend ==
    /\ sw.pc = "send"
    /\ \E outcome \in {"no token", "send failed", "no body", "ok"} :
          sw' = CASE outcome = "no token" ->
                       [sw EXCEPT !.pc = "done", !.res = Err("failed to read certificate", "")]
                  [] outcome = "send failed" ->
                       [sw EXCEPT !.pc = "done", !.sent = Append(sw.sent, sw.version),
                                  !.res = Err("failed to send change-version request", "")]
                  [] outcome = "no body" ->
                       [sw EXCEPT !.pc = "done", !.sent = Append(sw.sent, sw.version),
                                  !.res = Err("failed to read response body", "")]
                  [] outcome = "ok" ->
                       [sw EXCEPT !.pc = "done", !.sent = Append(sw.sent, sw.version),
                                  !.res = Ok]
    /\ UNCHANGED <<updateVars, sub>>

\* The update machinery when a backend command runs: an idle project.
IdleProject ==
    /\ lang \in Langs
    /\ cmd = [name |-> "none", no_updates |-> FALSE]
    /\ template = [tree |-> BaseTree, ahead |-> 0]
    /\ repo = Repo(BaseTree, BaseTree, 0, BaseTree, <<>>, FALSE, FALSE)
    /\ cli = [pc |-> "ls-remote", res |-> Pending, calls |-> <<>>]
    /\ up = [pc |-> "remote add", res |-> Pending, calls |-> <<>>]
    /\ needs = NoNeeds
    /\ pc = "none"
    /\ result = Running
    /\ calls = <<>>
    /\ pre = [wt |-> repo.wt, stash |-> repo.stash]
    /\ shelved = <<>>
    /\ prior = <<>>

\* mm-cli version switch, with or without --version, against any list of
\* versions the backend may hold.
InitSwitch ==
    /\ IdleProject
    /\ \E a \in { [given |-> FALSE, text |-> <<>>] }
                  \cup { [given |-> TRUE, text |-> t] : t \in VersionTexts },
          l \in VersionLists :
             sw = [pc |-> "parse args", arg |-> a, versions |-> l, fetched |-> FALSE,
                   list |-> <<>>, input |-> <<>>, version |-> 0, sent |-> <<>>,
                   res |-> Running]
    /\ sub = NoSubmit

NextSwitch ==
    \/ SwitchParseArgs
    \/ SwitchGetVersions
    \/ SwitchResolve
    \/ SwitchValidate
    \/ SwitchSend

SpecSwitch == InitSwitch /\ [][NextSwitch]_vars

(* -------------------------------- submit ------------------------------- *)

\* CompilationResponse, as far as submit reads it: status and result.success.
CompilationResponses ==
    [status : {"pending", "success", "failure"}, success : BOOLEAN]

\* The bodies a response may carry: the JSON asked for, an ErrorResponse, or
\* anything else.
Bodies(values) ==
    { [kind |-> "value", val |-> v] : v \in values }
        \cup { [kind |-> "error", val |-> [status |-> "", success |-> FALSE]],
               [kind |-> "garbage", val |-> [status |-> "", success |-> FALSE]] }

StatusCodes == {200, 400, 401, 500, 503}

\* request.rs parse_response: the value of a 2xx response whose body parses,
\* an error for everything else.
parse_response(resp) ==
    IF resp.code >= 200 /\ resp.code <= 299
    THEN IF resp.body.kind = "value"
         THEN [state |-> "ok", msg |-> "", val |-> resp.body.val]
         ELSE [state |-> "err", msg |-> "Failed to parse response", val |-> resp.body.val]
    ELSE IF resp.body.kind = "error"
    THEN [state |-> "err",
          msg |-> CASE resp.code = 400 -> "bad request: "
                    [] resp.code = 401 -> "authentication failed: "
                    [] resp.code = 500 -> "server error: "
                    [] OTHER -> "request failed (status): ",
          val |-> resp.body.val]
    ELSE [state |-> "err", msg |-> "request failed with status: ", val |-> resp.body.val]

\* What one poll may come to: the token cannot be read, the request fails,
\* or a response arrives.
PollOutcomes ==
    { [kind |-> k, code |-> 0, body |-> [kind |-> "garbage",
                                          val |-> [status |-> "", success |-> FALSE]]] :
        k \in {"no token", "send failed"} }
        \cup { [kind |-> "response", code |-> c, body |-> b] :
                 c \in StatusCodes, b \in Bodies(CompilationResponses) }

\* The poll loop of submit after one request: the error returned, the loop
\* left on a status other than pending, or another round.
AfterPoll_until_success(o) ==
    IF o.kind = "no token" THEN [pc |-> "done", res |-> Err("failed to read certificate", "")]
    ELSE IF o.kind = "send failed"
    THEN [pc |-> "done", res |-> Err("failed to check submission status", "")]
    ELSE IF parse_response(o).state = "err"
    THEN [pc |-> "done", res |-> Err(parse_response(o).msg, "")]
    ELSE IF parse_response(o).val.status = "success"
    THEN [pc |-> "report", res |-> Running]
    ELSE [pc |-> "poll", res |-> Running]

AfterPoll(o) ==
    IF o.kind = "no token" THEN [pc |-> "done", res |-> Err("failed to read certificate", "")]
    ELSE IF o.kind = "send failed"
    THEN [pc |-> "done", res |-> Err("failed to check submission status", "")]
    ELSE IF parse_response(o).state = "err"
    THEN [pc |-> "done", res |-> Err(parse_response(o).msg, "")]
    ELSE IF parse_response(o).val.status # "pending"
    THEN [pc |-> "report", res |-> Running]
    ELSE [pc |-> "poll", res |-> Running]

\* A response that tells the client the compilation is still pending.
SaysPending(o) ==
    /\ o.kind = "response"
    /\ o.code = 200
    /\ o.body.kind = "value"
    /\ o.body.val.status = "pending"

\* The strategy folder is packed and uploaded, the submission id is read.
SubmitUpload ==
    /\ sub.pc = "upload"
    /\ \E outcome \in {"no strategy", "no archive", "no token", "send failed",
                       "bad response", "ok"} :
          sub' = CASE outcome = "no strategy" ->
                        [sub EXCEPT !.pc = "done",
                                    !.res = Err("could not find strategy code", "")]
                   [] outcome = "no archive" ->
                        [sub EXCEPT !.pc = "done",
                                    !.res = Err("failed to compress directory", "")]
                   [] outcome = "no token" ->
                        [sub EXCEPT !.pc = "done",
                                    !.res = Err("failed to read certificate", "")]
                   [] outcome = "send failed" ->
                        [sub EXCEPT !.pc = "done", !.res = Err("failed to submit bot", "")]
                   [] outcome = "bad response" ->
                        [sub EXCEPT !.pc = "done", !.res = Err("Failed to parse response", "")]
                   [] outcome = "ok" ->
                        [sub EXCEPT !.pc = "poll", !.uploaded = TRUE]
    /\ UNCHANGED <<updateVars, sw>>

\* One round of the poll loop. The backend stops answering "pending" after
\* MaxPolls rounds.
SubmitPoll ==
    /\ sub.pc = "poll"
    /\ \E o \in PollOutcomes :
          /\ SaysPending(o) => Len(sub.polls) < MaxPolls
          /\ sub' = [sub EXCEPT !.pc = AfterPoll(o).pc, !.res = AfterPoll(o).res,
                                !.polls = Append(sub.polls, o)]
    /\ UNCHANGED <<updateVars, sw>>

\* What submit prints of the response that ended the loop.
Report(c) ==
    IF ~ c.success THEN "submission failed" ELSE "submission success"

\* After the loop: the outcome is printed and submit returns Ok(()).
SubmitReport ==
    /\ sub.pc = "report"
    /\ sub' = [sub EXCEPT !.pc = "done", !.res = Ok,
                          !.printed = Report(sub.polls[Len(sub.polls)].body.val)]
    /\ UNCHANGED <<updateVars, sw>>

\* mm-cli submit on a project of any language.
InitSubmit ==
    /\ IdleProject
    /\ sw = NoSwitch
    /\ sub = [pc |-> "upload", uploaded |-> FALSE, polls |-> <<>>, printed |-> "",
              res |-> Running]

NextSubmit == SubmitUpload \/ SubmitPoll \/ SubmitReport

SpecSubmit == InitSubmit /\ [][NextSubmit]_vars

(* ------------------------- claims: the sync sequence ------------------ *)

IsSyncCall(c) == c.cmd \in {"restore", "stash", "rebase", "stash pop"}

\* The invocations of update_starterpack, in launch order.
SyncCalls == SelectSeq(calls, IsSyncCall)

\* The files under ProtectedPath.
ProtectedFiles == { f \in FileIds : IsPrefix(strategy_path(lang), FilePath(lang, f)) }

SyncDone == pc = "done"

\* C1: the invocations of one run are a prefix of restore, stash, rebase,
\* stash pop; every invocation but the last exited with success; the next
\* step to launch is the one after the last launched; a successful run
\* launched all four, once each.
C1_StrictOrder ==
    /\ Len(SyncCalls) <= Len(SyncOrder)
    /\ \A k \in 1..Len(SyncCalls) : SyncCalls[k].cmd = SyncOrder[k]
    /\ \A k \in 1..(Len(SyncCalls) - 1) : SyncCalls[k].exit = "ok"
    /\ (~ SyncDone) => pc = SyncOrder[Len(SyncCalls) + 1]
    /\ result.state = "ok" => Len(SyncCalls) = Len(SyncOrder)

C1_Witness ==
    /\ SyncDone
    /\ result.state = "ok"
    /\ Len(SyncCalls) = 4
    /\ shelved # <<>>

\* C2: when the run ends in success, every file under ProtectedPath has the
\* content it had when the run began. It is checked on the runs that start
\* with an empty stash, where stash pop can only apply this run's snapshot.
C2_ProtectedPreserved ==
    (SyncDone /\ result.state = "ok") =>
        \A f \in ProtectedFiles : repo.wt[f] = pre.wt[f]

\* C4: a non-zero exit of the rebase ends the run in the rebase failure,
\* stash pop is never launched, and the entry the shelve step created is
\* still the newest entry of the stash, above the entries that were there.
C4_RebaseFailureContained ==
    \A k \in 1..Len(SyncCalls) :
        (SyncCalls[k].cmd = "rebase" /\ SyncCalls[k].exit = "nonzero") =>
            /\ SyncDone
            /\ result.state = "err"
            /\ result.msg = "Git rebase failed: "
            /\ \A j \in 1..Len(SyncCalls) : SyncCalls[j].cmd # "stash pop"
            /\ repo.stash = shelved \o pre.stash

C4_Witness ==
    /\ Len(SyncCalls) = 3
    /\ SyncCalls[3].exit = "nonzero"
    /\ SyncCalls[3].stderr = "CONFLICT"
    /\ shelved # <<>>

C5_Named(step) ==
    CASE step = "restore"   -> "Git restore failed: "
      [] step = "stash"     -> "Git stash failed: "
      [] step = "rebase"    -> "Git rebase failed: "
      [] step = "stash pop" -> "Git stash pop failed: "

\* C5: a non-zero exit of any step is the last invocation of the run, which
\* ends in the failure that names the step and carries its error stream;
\* what the completed steps did stays: the restored files when the shelve
\* fails, the stash entry when a later step fails.
C5_FailureStopsRun ==
    \A k \in 1..Len(SyncCalls) :
        SyncCalls[k].exit = "nonzero" =>
            /\ k = Len(SyncCalls)
            /\ SyncDone
            /\ result.state = "err"
            /\ result.msg = C5_Named(SyncCalls[k].cmd)
            /\ result.stderr = SyncCalls[k].stderr
            /\ k = 2 => \A f \in FileIds \ ProtectedFiles : repo.wt[f] = repo.up[f]
            /\ k = 3 => repo.stash = shelved \o pre.stash
            /\ (k = 4 /\ shelved # <<>>) => repo.stash = shelved \o pre.stash

C5_Witness ==
    /\ Len(SyncCalls) = 2
    /\ SyncCalls[2].exit = "nonzero"
    /\ repo.wt # pre.wt

\* C6: when the shelve step succeeded without creating an entry and the
\* rebase succeeded, a stash pop that git ran to its own end leaves the run
\* in success.
C6_NoopShelveSucceeds ==
    ( /\ SyncDone
      /\ Len(SyncCalls) = 4
      /\ shelved = <<>>
      /\ SyncCalls[4].exit # "spawn"
      /\ SyncCalls[4].stderr # "fatal" ) =>
        result.state = "ok"

\* C7: the entries the stash held before the run are never removed, and a
\* run whose shelve step captured nothing leaves the working tree of the
\* rebased head as stash pop found it.
C7_OnlyOwnSnapshot ==
    /\ Len(repo.stash) >= Len(pre.stash)
    /\ SubSeq(repo.stash, Len(repo.stash) - Len(pre.stash) + 1, Len(repo.stash))
         = pre.stash
    /\ (Len(SyncCalls) = 4 /\ shelved = <<>>) => repo.wt = repo.head

\* C8: when the run ends in success every non-protected file has the
\* content of upstream/main and the local head holds every upstream commit.
C8_MatchesUpstream ==
    (SyncDone /\ result.state = "ok") =>
        /\ \A f \in FileIds \ ProtectedFiles : repo.wt[f] = repo.up[f]
        /\ repo.ahead = 0

\* C9: after the restore step (whatever its exit) every file under
\* ProtectedPath has the content it had before, for each language.
C9_RestoreSparesProtected ==
    Len(SyncCalls) = 1 =>
        /\ ProtectedFiles = {"S"}
        /\ \A f \in ProtectedFiles : repo.wt[f] = pre.wt[f]

C9_Witness ==
    /\ Len(SyncCalls) = 1
    /\ SyncCalls[1].exit = "ok"
    /\ lang = "Java"
    /\ repo.wt["F"] # pre.wt["F"]
    /\ repo.wt["S"] # repo.up["S"]

\* C10: a non-zero exit of stash pop ends the run in the stash pop failure,
\* and the entry the shelve step created is still the newest entry of the
\* stash.
C10_UnshelveFailureKeepsSnapshot ==
    \A k \in 1..Len(SyncCalls) :
        (SyncCalls[k].cmd = "stash pop" /\ SyncCalls[k].exit = "nonzero") =>
            /\ SyncDone
            /\ result.state = "err"
            /\ result.msg = "Git stash pop failed: "
            /\ shelved # <<>> => repo.stash = shelved \o pre.stash

C10_Witness ==
    /\ Len(SyncCalls) = 4
    /\ SyncCalls[4].exit = "nonzero"
    /\ SyncCalls[4].stderr = "CONFLICT"
    /\ shelved # <<>>
    /\ Head(repo.stash) = shelved[1]

(* ------------------------- claims: the checks ------------------------- *)

\* C3: once the join of the two checks has returned, in check_all_updates
\* and in update_all alike, it has returned an error whenever the tool check
\* or the scaffold check failed, whatever the other one answered.
C3_JoinFailsIfEitherFails ==
    (needs.state # "pending" /\ (cli.res.state = "err" \/ up.res.state = "err")) =>
        /\ needs.state = "err"
        /\ result.state = "err"

(* ---------------------- claims: the scaffold check --------------------- *)

\* The invocations of a has_upstream_changes call, by position in its log.
Registration(u) == u.calls[1]
Fetch(u) == u.calls[2]
Count(u) == u.calls[3]

\* An invocation whose output is not what the command prints.
Garbled(c) == c.stdout = <<"?", "\n">>

\* C11: when the registration, the fetch and the count of a scaffold check
\* all complete, the check answers TRUE exactly when the number of commits of
\* upstream/main that the local head lacks is greater than zero.
C11_StaleIffAhead ==
    (/\ up.pc = "done"
     /\ Len(up.calls) = 3
     /\ Registration(up).exit # "spawn"
     /\ Fetch(up).exit = "ok"
     /\ Count(up).exit = "ok"
     /\ ~ Garbled(Count(up)))
        => up.res = Value(repo.ahead > 0)

\* A completed check that answered TRUE on a count of two digits.
C11_Witness ==
    /\ up.pc = "done"
    /\ Len(up.calls) = 3
    /\ Count(up).exit = "ok"
    /\ ~ Garbled(Count(up))
    /\ repo.ahead >= 10
    /\ up.res = Value(TRUE)

\* C12: a non-zero exit of the registration of "upstream" is never
\* surfaced: the check goes on to the fetch and the count and answers with
\* their result; the registration ends the check, in failure, only when git
\* could not be launched.
C12_RegistrationExitIgnored ==
    Len(up.calls) >= 1 =>
        /\ (up.pc = "done" /\ Len(up.calls) = 1) <=> Registration(up).exit = "spawn"
        /\ Registration(up).exit = "spawn" => up.res.state = "err"
        /\ (Registration(up).exit = "nonzero" /\ Len(up.calls) >= 2) =>
              /\ Fetch(up).cmd = "fetch"
              /\ up.pc = "done" =>
                    up.res = IF Len(up.calls) = 2
                             THEN AfterFetch(Fetch(up)).res
                             ELSE CountResult(Count(up))

\* The registration exited non-zero and the check still answered.
C12_Witness ==
    /\ up.pc = "done"
    /\ Len(up.calls) = 3
    /\ Registration(up).exit = "nonzero"
    /\ up.res = Value(TRUE)

\* An invocation that the environment made fail or garble: git could not be
\* launched, failed for a reason outside the repository, or printed no number.
EnvFault(c) == c.exit = "spawn" \/ c.stderr = "fatal" \/ Garbled(c)

FaultFree(u) == \A k \in 1..Len(u.calls) : ~ EnvFault(u.calls[k])

\* C13: has_upstream_changes called again, with the template's main and the
\* local head as they were, gives the result of the call before: two answers
\* are the same answer, and two calls that no outside fault disturbed end
\* alike; what the first call registered and fetched changes nothing.
C13_SecondCallAgrees ==
    \A k \in 1..Len(prior) :
        up.pc = "done" =>
            /\ (prior[k].res.state = "ok" /\ up.res.state = "ok") =>
                  up.res.val = prior[k].res.val
            /\ (FaultFree(prior[k]) /\ FaultFree(up)) => up.res = prior[k].res

\* The first call registered "upstream" and fetched it; the second found
\* the remote registered and answered all the same.
C13_Witness ==
    /\ Len(prior) = 1
    /\ up.pc = "done"
    /\ FaultFree(prior[1])
    /\ FaultFree(up)
    /\ Registration(prior[1]).exit = "ok"
    /\ Registration(up).exit = "nonzero"
    /\ up.res = Value(TRUE)

(* ------------------------ claims: the tool check ----------------------- *)

\* The one invocation of a has_cli_updates call.
Query(c) == c.calls[1]

\* C14: the tool check answers TRUE exactly when the identifier the build
\* recorded differs from the head identifier that ls-remote printed, FALSE
\* when they are equal; it fails when ls-remote could not be launched, exited
\* non-zero, or printed no identifier.
C14_ToolStaleIffHashDiffers ==
    cli.pc = "done" =>
        /\ Query(cli).exit = "spawn" => cli.res.state = "err"
        /\ Query(cli).exit = "nonzero" => cli.res.state = "err"
        /\ (Query(cli).exit = "ok" /\ Query(cli).stdout = <<>>) => cli.res.state = "err"
        /\ (Query(cli).exit = "ok" /\ Query(cli).stdout # <<>>) =>
              /\ Query(cli).stdout[1] \in Hashes
              /\ cli.res = Value(Query(cli).stdout[1] # get_current_cli_hash)

\* ls-remote printed another head than the build's and the check said stale.
C14_Witness ==
    /\ cli.pc = "done"
    /\ Query(cli).exit = "ok"
    /\ Query(cli).stdout # <<>>
    /\ Query(cli).stdout[1] # get_current_cli_hash
    /\ cli.res = Value(TRUE)

(* ---------------------- claims: the update command --------------------- *)

\* What the two checks reported, once they have.
ToolStale == cli.pc = "done" /\ cli.res = Value(TRUE)
ScaffoldStale == up.pc = "done" /\ up.res = Value(TRUE)
BothAnswered == cli.res.state = "ok" /\ up.res.state = "ok"

\* The reinstall has been launched; a step of the synchronisation has.
Reinstalled == \E k \in 1..Len(calls) : calls[k].cmd = "cargo install"
SyncStarted == SyncCalls # <<>>

\* C15 as stated: on update the reinstall is launched if and only if the
\* tool check reported stale, whatever became of the scaffold check.
C15_ReinstallIffToolStale ==
    (cmd.name = "update" /\ pc = "done") => (Reinstalled <=> ToolStale)

\* C15: on update, when both checks answered, the reinstall is launched if
\* and only if the tool check reported stale; at no time is it launched
\* unless the tool check reported stale, nor a synchronisation step unless
\* the scaffold check reported stale; with neither stale nothing is
\* launched; with both stale the reinstall is launched, and has exited, before
\* the first synchronisation step.
C15_UpdateDispatch ==
    cmd.name = "update" =>
        /\ (BothAnswered /\ pc = "done") => (Reinstalled <=> ToolStale)
        /\ Reinstalled => ToolStale
        /\ SyncStarted => ScaffoldStale
        /\ (BothAnswered /\ ~ ToolStale /\ ~ ScaffoldStale) => calls = <<>>
        /\ (ToolStale /\ SyncStarted) =>
              /\ calls[1].cmd = "cargo install"
              /\ calls[1].exit = "ok"
              /\ IsSyncCall(calls[2])

\* Both were stale: the reinstall ran, then the synchronisation started.
C15_Witness ==
    /\ cmd.name = "update"
    /\ ToolStale
    /\ ScaffoldStale
    /\ Reinstalled
    /\ SyncStarted

(* --------------------- claims: the two concurrent checks --------------- *)

\* The results the tool check may give when it runs in repository r.
CliAnswers(r) == { has_cli_updates(out) : out \in LsRemoteOutcomes(r) }

\* The repositories a step of the scaffold check may leave behind.
UpStepRepos(r) ==
    { out.repo : out \in Launch(r, GitRemoteAdd(r)) \cup Launch(r, GitFetch(r, template)) }

\* C16: the answer of the join is read only after both checks have
\* terminated, and the order in which their steps interleave does not matter:
\* the tool check leaves the repository as it is, and the results it may give
\* are the same before and after any step of the scaffold check.
C16_InterleavingIndependent ==
    /\ needs.state # "pending" => (cli.pc = "done" /\ up.pc = "done")
    /\ pc = "check" =>
          /\ \A out \in LsRemoteOutcomes(repo) : out.repo = repo
          /\ \A r \in UpStepRepos(repo) : CliAnswers(r) = CliAnswers(repo)

\* The scaffold check has registered and fetched "upstream" while the tool
\* check has yet to run.
C16_Witness ==
    /\ pc = "check"
    /\ cli.pc = "ls-remote"
    /\ up.pc = "rev-list"
    /\ Registration(up).exit = "ok"
    /\ Fetch(up).exit = "ok"

\* The steps of update_all that change the installed tool or the working tree.
MutatingSteps == {"cargo install", "restore", "stash", "rebase", "stash pop"}

\* C17: no two mutating invocations overlap and none overlaps a check: on
\* update every invocation but the last launched has exited, with success,
\* before the next is launched, and the reinstall or a synchronisation step is
\* launched, or about to be, only when both staleness checks have terminated.
C17_NoOverlap ==
    /\ cmd.name = "update" => \A k \in 1..(Len(calls) - 1) : calls[k].exit = "ok"
    /\ \A k \in 1..Len(calls) : calls[k].cmd \in MutatingSteps => cmd.name = "update"
    /\ (Reinstalled \/ SyncStarted \/ pc \in MutatingSteps) =>
          /\ cli.pc = "done"
          /\ up.pc = "done"
          /\ needs.state = "ok"

\* The reinstall and two synchronisation steps have run, one after the other.
C17_Witness ==
    /\ cmd.name = "update"
    /\ Reinstalled
    /\ Len(SyncCalls) >= 2
    /\ cli.pc = "done"
    /\ up.pc = "done"

\* C18: when the reinstall exits non-zero the update command ends there, in
\* failure with "CLI update failed", and no synchronisation step is launched,
\* not even when the scaffold check reported stale.
C18_ReinstallFailureStops ==
    \A k \in 1..Len(calls) :
        (calls[k].cmd = "cargo install" /\ calls[k].exit = "nonzero") =>
            /\ ToolStale
            /\ pc = "done"
            /\ result = Err("CLI update failed", "")
            /\ ~ SyncStarted
            /\ Len(calls) = 1

\* The reinstall failed while the scaffold was stale.
C18_Witness ==
    /\ cmd.name = "update"
    /\ ToolStale
    /\ ScaffoldStale
    /\ Len(calls) = 1
    /\ calls[1].cmd = "cargo install"
    /\ calls[1].exit = "nonzero"
    /\ result.state = "err"

(* ------------------------ claims: the run command ---------------------- *)

\* The build is about to be launched, or something has been.
BuildStarted == pc \in {"build", "engine"} \/ calls # <<>>

\* C19: run without --ignore-updates builds and plays only after
\* check_all_updates answered that nothing is stale, both checks having said
\* so; when it answers stale the command ends, without failure, having built
\* and run nothing; when it fails the command fails with "update check
\* failed", having built and run nothing. With --ignore-updates neither check
\* launches anything: no ls-remote, no remote registration, no fetch.
C19_RunGate ==
    cmd.name = "run" =>
        /\ cmd.no_updates =>
              /\ cli.calls = <<>>
              /\ up.calls = <<>>
              /\ needs = NoNeeds
        /\ (~ cmd.no_updates /\ BuildStarted) =>
              /\ needs.state = "ok" /\ ~ needs.cli /\ ~ needs.sp
              /\ cli.res = Value(FALSE)
              /\ up.res = Value(FALSE)
        /\ (needs.state = "ok" /\ (needs.cli \/ needs.sp)) =>
              pc = "done" /\ result = Ok /\ calls = <<>>
        /\ needs.state = "err" =>
              /\ pc = "done"
              /\ result.state = "err"
              /\ result.msg = "update check failed"
              /\ calls = <<>>

\* The match was played after both checks said that nothing is stale.
C19_Witness ==
    /\ cmd.name = "run"
    /\ ~ cmd.no_updates
    /\ needs.state = "ok"
    /\ \E k \in 1..Len(calls) : calls[k].cmd = "engine"

(* ----------------- claims: the steps of the scaffold check -------------- *)

\* has_upstream_changes: its invocations in program order.
CheckOrder == <<"remote add", "fetch", "rev-list">>

\* C20: the scaffold check launches remote add, fetch and rev-list in that
\* order, each at most once; a non-zero exit of the fetch ends it in failure
\* with rev-list never launched; a non-zero exit of rev-list ends it in
\* failure; so does an output of rev-list that is not a number, and no answer
\* is given.
C20_CheckOrderAndFailures ==
    /\ Len(up.calls) <= Len(CheckOrder)
    /\ \A k \in 1..Len(up.calls) : up.calls[k].cmd = CheckOrder[k]
    /\ Len(up.calls) = 3 => Fetch(up).exit = "ok"
    /\ (Len(up.calls) >= 2 /\ Fetch(up).exit = "nonzero") =>
          /\ up.pc = "done"
          /\ up.res = Failed("Git fetch failed: ", Fetch(up).stderr)
    /\ (Len(up.calls) = 3 /\ Count(up).exit = "nonzero") =>
          /\ up.pc = "done"
          /\ up.res = Failed("Git rev-list failed: ", Count(up).stderr)
    /\ (Len(up.calls) = 3 /\ Count(up).exit = "ok" /\ Garbled(Count(up))) =>
          /\ up.pc = "done"
          /\ up.res.state = "err"

\* The fetch exited non-zero and the check ended there.
C20_Witness ==
    /\ up.pc = "done"
    /\ Len(up.calls) = 2
    /\ Fetch(up).exit = "nonzero"
    /\ up.res.state = "err"

(* -------------------- claims: the end of a synchronisation ------------- *)

\* update_starterpack has returned an error.
SyncFailed == pc = "done" /\ result.state = "err"

\* update_starterpack has returned Ok(()).
SyncComplete == pc = "done" /\ result.state = "ok"

\* C21: when every invocation returns, update_starterpack ends, in Ok or in
\* an error; it never launches more than four invocations; and once it has
\* returned an error nothing changes any more: no step is taken after it.
C21_SyncTerminates ==
    /\ <>(SyncComplete \/ SyncFailed)
    /\ [](Len(SyncCalls) <= 4)
    /\ [][SyncFailed => UNCHANGED vars]_vars
    /\ [](SyncFailed => []SyncFailed)

\* The third invocation failed and the run has ended in failure.
C21_Witness ==
    /\ SyncFailed
    /\ Len(SyncCalls) = 3
    /\ SyncCalls[3].exit = "nonzero"
    /\ result.msg = "Git rebase failed: "

(* ------------------------ claims: version switch ----------------------- *)

\* The version numbers the backend lists.
ListedNumbers == { sw.versions[i].version_number : i \in 1..Len(sw.versions) }

\* Version v is listed with the compile status st.
ListedAs(v, st) ==
    \E i \in 1..Len(sw.versions) :
        sw.versions[i].version_number = v /\ sw.versions[i].compile_status = st

\* The user asked for "latest", on the command line or at the prompt.
AskedLatest ==
    \/ sw.arg.given /\ sw.arg.text = Latest
    \/ ~ sw.arg.given /\ sw.input = Latest \o <<"\n">>

\* The user asked for the number n, written plainly.
AskedNumber(n) ==
    \/ sw.arg.given /\ sw.arg.text = ToDecimal(n)
    \/ ~ sw.arg.given /\ sw.input = ToDecimal(n) \o <<"\n">>

\* switch has resolved the version it will validate.
Resolved == sw.pc \in {"validate", "send"} \/ sw.sent # <<>>

\* C22: version switch sends at most one change-version request, for the
\* resolved version, and only when the list was fetched and lists that
\* version with the compile status "success"; "latest" resolves to the
\* largest listed number and a plain number to itself; when the list is
\* empty, the resolved version is not listed, or it is listed with "failure"
\* only, the command ends in failure and no request was sent.
C22_SwitchGuard ==
    /\ Len(sw.sent) <= 1
    /\ sw.sent # <<>> =>
          /\ sw.fetched
          /\ sw.sent[1] = sw.version
          /\ ListedAs(sw.version, "success")
    /\ (AskedLatest /\ Resolved) =>
          /\ sw.version \in ListedNumbers
          /\ \A n \in ListedNumbers : n <= sw.version
    /\ \A n \in 0..(MaxVersion + 1) : (AskedNumber(n) /\ Resolved) => sw.version = n
    /\ (sw.pc = "done" /\ (\/ sw.versions = <<>>
                           \/ sw.version \notin ListedNumbers
                           \/ ~ ListedAs(sw.version, "success"))) =>
          /\ sw.res.state = "err"
          /\ sw.sent = <<>>

\* "latest" was asked, the largest number is not the last listed, and the
\* request for it was sent.
C22_Witness ==
    /\ AskedLatest
    /\ Len(sw.versions) = 2
    /\ sw.versions[1].version_number > sw.versions[2].version_number
    /\ sw.sent = <<sw.versions[1].version_number>>
    /\ sw.res = Ok

(* ---------------------------- claims: submit --------------------------- *)

\* The last poll made, when one was.
LastPoll == sub.polls[Len(sub.polls)]

\* A poll that brought a compilation response: a 2xx answer with the JSON.
Answered(o) ==
    /\ o.kind = "response"
    /\ o.code >= 200 /\ o.code <= 299
    /\ o.body.kind = "value"

\* C23: submit polls only after the upload succeeded; every poll before the
\* last was answered "pending"; after an answer "pending" it polls again,
\* after the first other answer it polls no more; it prints "submission
\* success" only when that answer's result.success is true; a poll that
\* failed or brought no compilation response ends the command in an error,
\* with nothing printed of the outcome.
C23_PollUntilSettled ==
    sub.polls # <<>> =>
        /\ sub.uploaded
        /\ \A k \in 1..(Len(sub.polls) - 1) :
              Answered(sub.polls[k]) /\ sub.polls[k].body.val.status = "pending"
        /\ (Answered(LastPoll) /\ LastPoll.body.val.status = "pending") =>
              sub.pc = "poll" /\ sub.res = Running
        /\ (Answered(LastPoll) /\ LastPoll.body.val.status # "pending") =>
              /\ sub.pc \in {"report", "done"}
              /\ sub.pc = "done" =>
                    /\ sub.res = Ok
                    /\ (sub.printed = "submission success") <=> LastPoll.body.val.success
        /\ sub.printed = "submission success" =>
              Answered(LastPoll) /\ LastPoll.body.val.success
        /\ ~ Answered(LastPoll) =>
              /\ sub.pc = "done"
              /\ sub.res.state = "err"
              /\ sub.printed = ""

\* Two polls were answered "pending", the third "failure" with
\* result.success true, and submit reported success.
C23_Witness ==
    /\ Len(sub.polls) = 3
    /\ LastPoll.body.val = [status |-> "failure", success |-> TRUE]
    /\ sub.pc = "done"
    /\ sub.printed = "submission success"

====
